---- MODULE Spec2Model ----
(***************************************************************************)
(* Model of the Textify server's shard aggregation engine:                 *)
(*   src/app.py   upload_model, download_aggregated_model                  *)
(*   src/main.py  upload_model (the variant without aggregation)           *)
(* Every request runs on its own worker; the shared state is the 'models'  *)
(* directory and the file lock 'aggregate.lock'.  Each action is one step  *)
(* of a handler between two accesses to that shared state.                 *)
(***************************************************************************)
EXTENDS Integers, Sequences, FiniteSets, TLC

\* ------------------------------------------------------------- bounds
NumUploads == 2
NumAggs == 2
NumNames == 2

Uploads == 1..NumUploads
Aggs == 1..NumAggs
\* The store keys "{device_id}_{timestamp}.pkl"; two requests of one device
\* within one second get the same key.
Names == 1..NumNames

\* ------------------------------------------------- Python values, pickles
Keys == {"n", "vocabulary", "total_words"}

Empty == [x \in {} |-> 0]

PyInt(k) == [ty |-> "int", i |-> k, d |-> Empty]
PyNone == [ty |-> "none", i |-> 0, d |-> Empty]
PyDict(f) == [ty |-> "dict", i |-> 0, d |-> f]

\* What a file holds: bytes pickle.load raises on, a pickled None, or a
\* pickled dict (m: its keys and values).
Corrupt == [kind |-> "corrupt", m |-> Empty]
NoneObj == [kind |-> "none", m |-> Empty]
Dict(f) == [kind |-> "dict", m |-> f]

Without(b, k) == Dict([x \in (DOMAIN b.m) \ {k} |-> b.m[x]])
With(b, k, v) == Dict([x \in (DOMAIN b.m) \cup {k} |-> IF x = k THEN v ELSE b.m[x]])

ShardA ==
    Dict([k \in Keys |->
        CASE k = "n" -> PyInt(2)
          [] k = "vocabulary" -> PyDict([t \in {"the_cat", "a_dog"} |-> IF t = "the_cat" THEN 3 ELSE 1])
          [] k = "total_words" -> PyInt(10)])

ShardB ==
    Dict([k \in Keys |->
        CASE k = "n" -> PyInt(2)
          [] k = "vocabulary" -> PyDict([t \in {"the_cat", "a_mouse"} |-> IF t = "the_cat" THEN 2 ELSE 5])
          [] k = "total_words" -> PyInt(7)])

\* The blobs a device may submit.
Payloads ==
    { Corrupt, NoneObj, ShardA, ShardB,
      Without(ShardA, "n"), Without(ShardA, "vocabulary"), Without(ShardB, "total_words"),
      With(ShardB, "n", PyNone), With(ShardA, "vocabulary", PyNone) }

Variants == {"app", "main"}

\* --------------------------------------------------------------- state
VARIABLES
    files,        \* names present in UPLOAD_FOLDER
    content,      \* what each present file holds
    writer,       \* history: the upload request that wrote the file
    lock,         \* holder of aggregate.lock, 0 when free
    upc, uvariant, uname, ublob, model_data, uout,
    apc, model_files, pos, aggregated, count, aout,
    loaded,       \* history: what each iteration of the fold loop read
    before,       \* history: the uploads that had saved when list() ran
    settled       \* history: the uploads answered Accepted, their blob stored, when list() ran

uvars == <<upc, uvariant, uname, ublob, model_data, uout>>
avars == <<apc, model_files, pos, aggregated, count, aout, loaded, before, settled>>
svars == <<files, content, writer>>
vars == <<files, content, writer, lock, upc, uvariant, uname, ublob, model_data, uout,
          apc, model_files, pos, aggregated, count, aout, loaded, before, settled>>

Init ==
    /\ files = {}
    /\ content = [nm \in Names |-> Corrupt]
    /\ writer = [nm \in Names |-> 0]
    /\ lock = 0
    /\ upc = [u \in Uploads |-> "start"]
    /\ uvariant = [u \in Uploads |-> "app"]
    /\ uname = [u \in Uploads |-> 1]
    /\ ublob = [u \in Uploads |-> Corrupt]
    /\ model_data = [u \in Uploads |-> NoneObj]
    /\ uout = [u \in Uploads |-> "none"]
    /\ apc = [a \in Aggs |-> "start"]
    /\ model_files = [a \in Aggs |-> <<>>]
    /\ pos = [a \in Aggs |-> 1]
    /\ aggregated = [a \in Aggs |-> NoneObj]
    /\ count = [a \in Aggs |-> 0]
    /\ aout = [a \in Aggs |-> "none"]
    /\ loaded = [a \in Aggs |-> <<>>]
    /\ before = [a \in Aggs |-> {}]
    /\ settled = [a \in Aggs |-> {}]

\* ------------------------------------------------------ the shard store
\* open(path, 'rb') + pickle.load: raises when the file is gone or corrupt.
LoadFile(nm) ==
    IF nm \in files /\ content[nm].kind # "corrupt"
    THEN [ok |-> TRUE, val |-> content[nm], by |-> writer[nm]]
    ELSE [ok |-> FALSE, val |-> Corrupt, by |-> IF nm \in files THEN writer[nm] ELSE 0]

\* os.remove(filepath)
Removed(nm) ==
    /\ files' = files \ {nm}
    /\ content' = [content EXCEPT ![nm] = Corrupt]
    /\ writer' = [writer EXCEPT ![nm] = 0]

\* ------------------------------------------------------- upload_model
\* app.py: the membership test and the statistics inside the inner try.
AppValidate(v) ==
    IF v.kind # "dict" THEN "raise"
    ELSE IF ~ (\A k \in Keys : k \in DOMAIN v.m) THEN "invalid"
    ELSE IF v.m["vocabulary"].ty # "dict" THEN "raise"
    ELSE "ok"

\* main.py: the membership test inside the inner try, the statistics of the
\* response outside it.
MainValidate(v) ==
    IF v.kind # "dict" THEN "raise"
    ELSE IF ~ ("n" \in DOMAIN v.m /\ "vocabulary" \in DOMAIN v.m) THEN "invalid"
    ELSE IF v.m["vocabulary"].ty # "dict" THEN "error"
    ELSE IF "total_words" \notin DOMAIN v.m THEN "error"
    ELSE "ok"

\* file.save(filepath): creates or overwrites the file.
UploadSave(u) ==
    /\ upc[u] = "start"
    /\ \E nm \in Names, b \in Payloads, v \in Variants :
        /\ uname' = [uname EXCEPT ![u] = nm]
        /\ ublob' = [ublob EXCEPT ![u] = b]
        /\ uvariant' = [uvariant EXCEPT ![u] = v]
        /\ files' = files \cup {nm}
        /\ content' = [content EXCEPT ![nm] = b]
        /\ writer' = [writer EXCEPT ![nm] = u]
    /\ upc' = [upc EXCEPT ![u] = "saved"]
    /\ UNCHANGED <<lock, model_data, uout, avars>>

\* The validation block of app.py: load, test, statistics.
AppLoad(u) ==
    /\ upc[u] = "saved"
    /\ uvariant[u] = "app"
    /\ LET r == LoadFile(uname[u])
           verdict == IF r.ok THEN AppValidate(r.val) ELSE "raise"
       IN /\ model_data' = [model_data EXCEPT ![u] = IF r.ok THEN r.val ELSE NoneObj]
          /\ upc' = [upc EXCEPT ![u] = IF verdict = "ok" THEN "stat" ELSE "remove"]
    /\ UNCHANGED <<svars, lock, uvariant, uname, ublob, uout, avars>>

\* os.remove(filepath) of both rejecting branches of app.py and of the except
\* branch of main.py; a file already gone makes os.remove raise, which the
\* outer handler answers with 500.  (In app.py a failed remove at line 100 is
\* retried at line 120 by the except branch; a retry that succeeds is the
\* same step taken later.)
UploadRemove(u) ==
    /\ upc[u] = "remove"
    /\ IF uname[u] \in files
       THEN /\ Removed(uname[u])
            /\ uout' = [uout EXCEPT ![u] = "Rejected"]
       ELSE /\ UNCHANGED svars
            /\ uout' = [uout EXCEPT ![u] = "Error"]
    /\ upc' = [upc EXCEPT ![u] = "done"]
    /\ UNCHANGED <<lock, uvariant, uname, ublob, model_data, avars>>

\* os.path.getsize(filepath) for the audit record, then the 200 response.
AppStat(u) ==
    /\ upc[u] = "stat"
    /\ uout' = [uout EXCEPT ![u] = IF uname[u] \in files THEN "Accepted" ELSE "Error"]
    /\ upc' = [upc EXCEPT ![u] = "done"]
    /\ UNCHANGED <<svars, lock, uvariant, uname, ublob, model_data, avars>>

\* The validation block of main.py and its response.
MainLoad(u) ==
    /\ upc[u] = "saved"
    /\ uvariant[u] = "main"
    /\ LET r == LoadFile(uname[u])
           verdict == IF r.ok THEN MainValidate(r.val) ELSE "raise"
       IN /\ model_data' = [model_data EXCEPT ![u] = IF r.ok THEN r.val ELSE NoneObj]
          /\ upc' = [upc EXCEPT ![u] = IF verdict = "raise" THEN "remove" ELSE "done"]
          /\ uout' = [uout EXCEPT ![u] =
                CASE verdict = "raise" -> "none"
                  [] verdict = "invalid" -> "Rejected"
                  [] verdict = "error" -> "Error"
                  [] verdict = "ok" -> "Accepted"]
    /\ UNCHANGED <<svars, lock, uvariant, uname, ublob, avars>>

\* ------------------------------------------- download_aggregated_model
\* Mutant of LockFree: the handler enters without taking the lock.
LockFreeAlways == TRUE

\* `with lock:` enters only when no other request holds aggregate.lock.
LockFree == lock = 0

\* Mutant of NoModels: the empty test is missing.
NoModelsNever(fs) == FALSE

\* `if not model_files:`
NoModels(fs) == fs = <<>>

RECURSIVE SeqsOf(_)
\* The orders os.listdir may return the names of S in.
SeqsOf(S) ==
    IF S = {} THEN { <<>> }
    ELSE UNION { { <<x>> \o s : s \in SeqsOf(S \ {x}) } : x \in S }

\* Mutant of CurrentFile: the loop walks the directory as it is now (in name
\* order) instead of the list taken by os.listdir.
CurrentFileLive(a) ==
    LET live == CHOOSE s \in SeqsOf(files) : \A i \in 1..(Len(s) - 1) : s[i] < s[i + 1]
    IN IF pos[a] <= Len(live) THEN live[pos[a]] ELSE model_files[a][pos[a]]

\* `for fname in model_files`: the name of the current iteration.
CurrentFile(a) == model_files[a][pos[a]]

\* aggregated[k] += model[k]: raises when either side lacks k, when the model
\* is no dict, or when the two values are not both integers.
CanAdd(agg, model, k) ==
    /\ k \in DOMAIN agg.m
    /\ model.kind = "dict"
    /\ k \in DOMAIN model.m
    /\ agg.m[k].ty = "int"
    /\ model.m[k].ty = "int"

\* Mutant of AddField: `=` written for `+=`.
AddFieldAssign(agg, model, k) == With(agg, k, PyInt(model.m[k].i))

AddField(agg, model, k) == With(agg, k, PyInt(agg.m[k].i + model.m[k].i))

\* The vocabulary loop: raises when the model has no iterable vocabulary, or,
\* at its first word, when the aggregate's vocabulary is no dict.
CanCount(agg, model) ==
    /\ "vocabulary" \in DOMAIN model.m
    /\ model.m["vocabulary"].ty = "dict"
    /\ \/ DOMAIN model.m["vocabulary"].d = {}
       \/ /\ "vocabulary" \in DOMAIN agg.m
          /\ agg.m["vocabulary"].ty = "dict"

\* aggregated['vocabulary'][word] = aggregated['vocabulary'].get(word, 0) + 1
CountWords(ad, md) ==
    [t \in (DOMAIN ad) \cup (DOMAIN md) |->
        IF t \in DOMAIN md
        THEN (IF t \in DOMAIN ad THEN ad[t] ELSE 0) + 1
        ELSE ad[t]]

AddVocabulary(agg, model) ==
    IF DOMAIN model.m["vocabulary"].d = {} THEN agg
    ELSE With(agg, "vocabulary",
              PyDict(CountWords(agg.m["vocabulary"].d, model.m["vocabulary"].d)))

\* The body of the try of one iteration, after the load: the new aggregate
\* and whether the body ran to its end.  A raise leaves the assignments made
\* before it in place.
Merge(agg, model) ==
    IF agg.kind = "none" THEN [val |-> model, ok |-> TRUE]
    ELSE IF ~ CanAdd(agg, model, "n") THEN [val |-> agg, ok |-> FALSE]
    ELSE LET a1 == AddField(agg, model, "n") IN
         IF ~ CanAdd(a1, model, "total_words") THEN [val |-> a1, ok |-> FALSE]
         ELSE LET a2 == AddField(a1, model, "total_words") IN
              IF ~ CanCount(a2, model) THEN [val |-> a2, ok |-> FALSE]
              ELSE [val |-> AddVocabulary(a2, model), ok |-> TRUE]

\* Mutant of FoldOne: count += 1 placed after the try, so that a skipped file
\* is counted too.
FoldOneCountsAll(agg, cnt, r) ==
    IF ~ r.ok THEN [val |-> agg, cnt |-> cnt + 1]
    ELSE [val |-> Merge(agg, r.val).val, cnt |-> cnt + 1]

\* One iteration of the loop on the result r of the load: the new aggregate
\* and count.  A failed load or a raise in the body is logged and skipped.
FoldOne(agg, cnt, r) ==
    IF ~ r.ok THEN [val |-> agg, cnt |-> cnt]
    ELSE LET g == Merge(agg, r.val)
         IN [val |-> g.val, cnt |-> IF g.ok THEN cnt + 1 ELSE cnt]

\* agg_stats: `aggregated[k] if aggregated else 0` and len(); raises for a
\* non-empty dict that lacks a key or whose vocabulary has no length.
StatsRaise(agg) ==
    /\ agg.kind = "dict"
    /\ DOMAIN agg.m # {}
    /\ \/ Keys \ DOMAIN agg.m # {}
       \/ agg.m["vocabulary"].ty # "dict"

AggAcquire(a) ==
    /\ apc[a] = "start"
    /\ LockFree
    /\ lock' = a
    /\ apc' = [apc EXCEPT ![a] = "list"]
    /\ UNCHANGED <<svars, uvars, model_files, pos, aggregated, count, aout, loaded, before, settled>>

\* Mutant of AggList: the lock is taken and released by hand, and the early
\* return for an empty store skips the release.
AggListKeepsLock(a) ==
    /\ apc[a] = "list"
    /\ \E fs \in SeqsOf(files) :
        /\ model_files' = [model_files EXCEPT ![a] = fs]
        /\ IF NoModels(fs)
           THEN /\ aout' = [aout EXCEPT ![a] = "NoShards"]
                /\ apc' = [apc EXCEPT ![a] = "done"]
           ELSE /\ apc' = [apc EXCEPT ![a] = "fold"]
                /\ UNCHANGED aout
    /\ UNCHANGED <<lock, before, settled>>
    /\ UNCHANGED <<svars, uvars, pos, aggregated, count, loaded>>

\* os.listdir, the empty test, and the initialisation of the loop.
AggList(a) ==
    /\ apc[a] = "list"
    /\ \E fs \in SeqsOf(files) :
        /\ model_files' = [model_files EXCEPT ![a] = fs]
        /\ IF NoModels(fs)
           THEN /\ aout' = [aout EXCEPT ![a] = "NoShards"]
                /\ apc' = [apc EXCEPT ![a] = "done"]
                /\ lock' = 0
           ELSE /\ apc' = [apc EXCEPT ![a] = IF Len(fs) = 0 THEN "finish" ELSE "fold"]
                /\ UNCHANGED <<aout, lock>>
    /\ before' = [before EXCEPT ![a] = {u \in Uploads : upc[u] # "start"}]
    /\ settled' = [settled EXCEPT ![a] =
            {u \in Uploads : uout[u] = "Accepted" /\ uname[u] \in files /\ writer[uname[u]] = u}]
    /\ UNCHANGED <<svars, uvars, pos, aggregated, count, loaded>>

\* One iteration of `for fname in model_files`.
AggFold(a) ==
    /\ apc[a] = "fold"
    /\ LET nm == CurrentFile(a)
           r == LoadFile(nm)
           f == FoldOne(aggregated[a], count[a], r)
       IN /\ aggregated' = [aggregated EXCEPT ![a] = f.val]
          /\ count' = [count EXCEPT ![a] = f.cnt]
          /\ loaded' = [loaded EXCEPT ![a] =
                Append(@, [name |-> nm, by |-> r.by, val |-> r.val,
                           folded |-> f.cnt > count[a]])]
    /\ pos' = [pos EXCEPT ![a] = @ + 1]
    /\ apc' = [apc EXCEPT ![a] = IF pos[a] = Len(model_files[a]) THEN "finish" ELSE "fold"]
    /\ UNCHANGED <<svars, lock, uvars, model_files, aout, before, settled>>

\* Mutant of AggFinish: the lock is released by hand after send_file, so an
\* exception in the statistics leaves it held.
AggFinishLeaks(a) ==
    /\ apc[a] = "finish"
    /\ aout' = [aout EXCEPT ![a] = IF StatsRaise(aggregated[a]) THEN "Error" ELSE "Aggregated"]
    /\ lock' = IF StatsRaise(aggregated[a]) THEN lock ELSE 0
    /\ apc' = [apc EXCEPT ![a] = "done"]
    /\ UNCHANGED <<svars, uvars, model_files, pos, aggregated, count, loaded, before, settled>>

\* Mutant of AggFinish: the files of the list are deleted once aggregated.
AggFinishPurges(a) ==
    /\ apc[a] = "finish"
    /\ aout' = [aout EXCEPT ![a] = IF StatsRaise(aggregated[a]) THEN "Error" ELSE "Aggregated"]
    /\ lock' = 0
    /\ apc' = [apc EXCEPT ![a] = "done"]
    /\ LET gone == { model_files[a][i] : i \in 1..Len(model_files[a]) }
       IN /\ files' = files \ gone
          /\ content' = [nm \in Names |-> IF nm \in gone THEN Corrupt ELSE content[nm]]
          /\ writer' = [nm \in Names |-> IF nm \in gone THEN 0 ELSE writer[nm]]
    /\ UNCHANGED <<uvars, model_files, pos, aggregated, count, loaded, before, settled>>

\* The statistics, pickle.dump, send_file; leaving `with` releases the lock.
AggFinish(a) ==
    /\ apc[a] = "finish"
    /\ aout' = [aout EXCEPT ![a] = IF StatsRaise(aggregated[a]) THEN "Error" ELSE "Aggregated"]
    /\ lock' = 0
    /\ apc' = [apc EXCEPT ![a] = "done"]
    /\ UNCHANGED <<svars, uvars, model_files, pos, aggregated, count, loaded, before, settled>>

Next ==
    \/ \E u \in Uploads : UploadSave(u)
    \/ \E u \in Uploads : AppLoad(u)
    \/ \E u \in Uploads : UploadRemove(u)
    \/ \E u \in Uploads : AppStat(u)
    \/ \E u \in Uploads : MainLoad(u)
    \/ \E a \in Aggs : AggAcquire(a)
    \/ \E a \in Aggs : AggList(a)
    \/ \E a \in Aggs : AggFold(a)
    \/ \E a \in Aggs : AggFinish(a)

Spec == Init /\ [][Next]_vars

\* Every worker of an aggregate request keeps running: Flask gives each
\* request a thread of its own, and FileLock polls until the lock is free.
\* Nothing is assumed of the upload requests.
AggFairness ==
    \A a \in Aggs :
        /\ WF_vars(AggAcquire(a))
        /\ WF_vars(AggList(a))
        /\ WF_vars(AggFold(a))
        /\ WF_vars(AggFinish(a))

\* The submissions of the fair specification: a valid shard, and a dict that
\* is rejected and that makes the statistics of the aggregation raise.
FairPayloads == { ShardA, Without(ShardA, "n") }

FairUploadSave(u) == UploadSave(u) /\ ublob'[u] \in FairPayloads

FairNext ==
    \/ \E u \in Uploads : FairUploadSave(u)
    \/ \E u \in Uploads : AppLoad(u)
    \/ \E u \in Uploads : UploadRemove(u)
    \/ \E u \in Uploads : AppStat(u)
    \/ \E u \in Uploads : MainLoad(u)
    \/ \E a \in Aggs : AggAcquire(a)
    \/ \E a \in Aggs : AggList(a)
    \/ \E a \in Aggs : AggFold(a)
    \/ \E a \in Aggs : AggFinish(a)

FairSpec == Init /\ [][FairNext]_vars /\ AggFairness

\* ------------------------------------------------------------ properties
Tokens == {"the_cat", "a_dog", "a_mouse"}

\* A structurally valid, type-correct Model: the three fields, a positive
\* integer order, a mapping as vocabulary, a non-negative integer total.
Good(b) ==
    /\ b.kind = "dict"
    /\ DOMAIN b.m = Keys
    /\ b.m["n"].ty = "int" /\ b.m["n"].i >= 1
    /\ b.m["vocabulary"].ty = "dict"
    /\ b.m["total_words"].ty = "int" /\ b.m["total_words"].i >= 0

LoadFailed(e) == e.val.kind = "corrupt"
Undecodable(e) == LoadFailed(e) /\ e.by # 0

GoodEntry(e) == Good(e.val)

\* The models the run loaded, in the order it loaded them.
GoodModels(a) ==
    LET g == SelectSeq(loaded[a], GoodEntry) IN [i \in 1..Len(g) |-> g[i].val]

\* Every file of the run either failed to load or held a valid Model.
OnlyGoodOrFailed(a) == \A i \in 1..Len(loaded[a]) : LoadFailed(loaded[a][i]) \/ Good(loaded[a][i].val)

TotalOf(b) ==
    IF b.kind = "dict" /\ "total_words" \in DOMAIN b.m /\ b.m["total_words"].ty = "int"
    THEN b.m["total_words"].i ELSE 0

CountOf(b, t) ==
    IF b.kind = "dict" /\ "vocabulary" \in DOMAIN b.m /\ b.m["vocabulary"].ty = "dict"
       /\ t \in DOMAIN b.m["vocabulary"].d
    THEN b.m["vocabulary"].d[t] ELSE 0

VocabularyOf(b) ==
    IF b.kind = "dict" /\ "vocabulary" \in DOMAIN b.m /\ b.m["vocabulary"].ty = "dict"
    THEN b.m["vocabulary"].d ELSE Empty

RECURSIVE SumTotals(_)
SumTotals(s) == IF Len(s) = 0 THEN 0 ELSE TotalOf(s[1]) + SumTotals(Tail(s))

RECURSIVE SumCounts(_, _)
SumCounts(s, t) == IF Len(s) = 0 THEN 0 ELSE CountOf(s[1], t) + SumCounts(Tail(s), t)

RECURSIVE FoldSeq(_, _)
\* The loop of the handler run on the models s, from the aggregate agg.
FoldSeq(agg, s) == IF Len(s) = 0 THEN agg ELSE FoldSeq(Merge(agg, s[1]).val, Tail(s))

Reorderings(s) == { [i \in 1..Len(s) |-> s[p[i]]] : p \in SeqsOf(1..Len(s)) }

Listed(a) == { model_files[a][i] : i \in 1..Len(model_files[a]) }

InCritical(a) == apc[a] \in {"list", "fold", "finish"}

\* C1: at most one aggregate request is between its listing of the store and
\* the end of its fold: no two requests are inside the locked section together.
MutualExclusion ==
    \A a \in Aggs, b \in Aggs : a # b => ~ (InCritical(a) /\ InCritical(b))

\* C1 witness: one request is in its fold loop, having read a file, while
\* another has arrived and waits for the lock.
MutualExclusionWitness ==
    \E a \in Aggs, b \in Aggs :
        a # b /\ apc[a] = "fold" /\ Len(loaded[a]) >= 1 /\ apc[b] = "start" /\ lock = a

\* C2: a submission that has returned anything but Accepted after writing its
\* blob has left no blob of its own in the store.
RollbackOnRejection ==
    \A u \in Uploads :
        (upc[u] = "done" /\ uout[u] # "Accepted")
            => ~ (uname[u] \in files /\ writer[uname[u]] = u)

\* C3: a submission whose blob decodes to a value lacking one of n,
\* vocabulary, total_words is not answered Accepted, and its blob is not
\* listed once it has returned.
RejectsIncomplete ==
    \A u \in Uploads :
        (upc[u] = "done" /\ ublob[u].kind # "corrupt" /\ DOMAIN ublob[u].m # Keys)
            => /\ uout[u] # "Accepted"
               /\ ~ (uname[u] \in files /\ writer[uname[u]] = u)

\* C4: the aggregate of a run over valid shards holds, for every token, the
\* sum of the counts the folded shards store for it.
VocabularyAdditive ==
    \A a \in Aggs :
        (aout[a] = "Aggregated" /\ OnlyGoodOrFailed(a))
            => \A t \in Tokens : CountOf(aggregated[a], t) = SumCounts(GoodModels(a), t)

\* C5: the aggregate of a run whose decoded shards are all valid holds the
\* sum of the total_words of the shards it folded.
TotalWordsAdditive ==
    \A a \in Aggs :
        (aout[a] = "Aggregated" /\ OnlyGoodOrFailed(a) /\ Len(GoodModels(a)) >= 1)
            => /\ aggregated[a].kind = "dict"
               /\ "total_words" \in DOMAIN aggregated[a].m
               /\ aggregated[a].m["total_words"] = PyInt(SumTotals(GoodModels(a)))

\* C5 witness: a run has returned the aggregate of two valid shards with
\* different totals.
TotalWordsWitness ==
    \E a \in Aggs :
        /\ aout[a] = "Aggregated" /\ OnlyGoodOrFailed(a)
        /\ Len(GoodModels(a)) = 2 /\ count[a] = 2
        /\ TotalOf(GoodModels(a)[1]) # TotalOf(GoodModels(a)[2])

\* C6: the aggregate of a run over valid shards is the one every other order
\* of listing those shards produces: same total_words, same vocabulary.
OrderIndependent ==
    \A a \in Aggs :
        (aout[a] = "Aggregated" /\ OnlyGoodOrFailed(a))
            => \A s \in Reorderings(GoodModels(a)) :
                /\ TotalOf(FoldSeq(NoneObj, s)) = TotalOf(aggregated[a])
                /\ VocabularyOf(FoldSeq(NoneObj, s)) = VocabularyOf(aggregated[a])

EmptyStoreRejected ==
    \A a \in Aggs :
        /\ (apc[a] \in {"fold", "finish", "done"} /\ model_files[a] = <<>>)
                => (apc[a] = "done" /\ aout[a] = "NoShards")
        /\ aout[a] = "NoShards" => (model_files[a] = <<>> /\ aggregated[a] = NoneObj)

\* C8 witness: a run has returned NoShardsAvailable.
EmptyStoreWitness ==
    \E a \in Aggs : apc[a] = "done" /\ aout[a] = "NoShards"

\* C9 as stated: every blob a run folds was written by a submission that had
\* saved before the run's list().
OnlyEarlierSubmissionsFolded ==
    \A a \in Aggs : \A i \in 1..Len(loaded[a]) :
        (~ LoadFailed(loaded[a][i]) /\ loaded[a][i].folded) => loaded[a][i].by \in before[a]

\* C9 as amended: a run reads the names of its list(), each once and in that
\* order, and every blob it folds was written by a submission that had saved
\* before the list() or that wrote under a listed name.
SnapshotOfNames ==
    \A a \in Aggs :
        /\ Len(loaded[a]) <= Len(model_files[a])
        /\ \A i \in 1..Len(loaded[a]) :
            /\ loaded[a][i].name = model_files[a][i]
            /\ (~ LoadFailed(loaded[a][i]) /\ loaded[a][i].folded)
                    => \/ loaded[a][i].by \in before[a]
                       \/ uname[loaded[a][i].by] \in Listed(a)

\* C9 witness: a run has ended its loop with a folded shard, and the blob of
\* a submission that saved after the run's list(), under a name not listed,
\* is in the store.
SnapshotWitness ==
    \E a \in Aggs, u \in Uploads :
        /\ apc[a] = "finish" /\ count[a] >= 1
        /\ u \notin before[a]
        /\ uname[u] \in files /\ writer[uname[u]] = u
        /\ uname[u] \notin Listed(a)

\* C10: a submission is answered Accepted only if the value it decoded has
\* the three fields, each of its type.
AcceptedOnlyTypeCorrect ==
    \A u \in Uploads : uout[u] = "Accepted" => Good(model_data[u])


RECURSIVE Completed(_, _)
\* The number of iterations, over the reads s and from the aggregate agg,
\* whose load succeeded and whose body ran to its end.
Completed(agg, s) ==
    IF Len(s) = 0 THEN 0
    ELSE IF LoadFailed(s[1]) THEN Completed(agg, Tail(s))
    ELSE LET g == Merge(agg, s[1].val)
         IN (IF g.ok THEN 1 ELSE 0) + Completed(g.val, Tail(s))

LockReleasedOnReturn ==
    \A a \in Aggs : apc[a] = "done" => lock # a

\* C12 witness: one request has returned through an error raised inside the
\* locked section and another with NoShardsAvailable, the lock being free.
LockReleasedWitness ==
    \E a \in Aggs, b \in Aggs :
        /\ apc[a] = "done" /\ aout[a] = "Error"
        /\ apc[b] = "done" /\ aout[b] = "NoShards"
        /\ lock = 0

\* C13: under fair scheduling of the aggregate workers, every aggregate
\* request waiting for the lock gets it, and every holder of the lock returns.
AggregateLiveness ==
    \A a \in Aggs :
        /\ (apc[a] = "start") ~> (lock = a)
        /\ (lock = a) ~> (apc[a] = "done")

\* C13 witness: a request has returned while another, having waited behind
\* it, holds the lock, with a submission under way.
AggregateLivenessWitness ==
    \E a \in Aggs, b \in Aggs, u \in Uploads :
        /\ apc[a] = "done" /\ aout[a] = "Aggregated"
        /\ lock = b /\ apc[b] = "fold"
        /\ upc[u] = "saved"

LoopEnded(a) == apc[a] \in {"finish", "done"} /\ model_files[a] # <<>>

\* C14: the blob of a submission that was answered Accepted, and was in the
\* store, before a run's list() is folded by that run when the run reads it.
AcceptedShardIncluded ==
    \A a \in Aggs : \A i \in 1..Len(loaded[a]) :
        loaded[a][i].by \in settled[a] => loaded[a][i].folded

\* C15: the aggregate and the count of a run that read only dicts are those
\* of the fold of the valid shards it read; a dict that is not a valid Model
\* leaves no trace in them.
InvalidShardsExcluded ==
    \A a \in Aggs :
        (LoopEnded(a) /\ \A i \in 1..Len(loaded[a]) : loaded[a][i].val.kind # "none")
            => /\ aggregated[a] = FoldSeq(NoneObj, GoodModels(a))
               /\ count[a] = Len(GoodModels(a))

FoldedEntry(e) == e.folded

RECURSIVE SumOrders(_)
SumOrders(s) == IF Len(s) = 0 THEN 0 ELSE s[1].val.m["n"].i + SumOrders(Tail(s))

\* C16: when every shard a run counted as processed is a valid Model, the
\* order of its aggregate is the sum of the orders of those shards.
OrderIsSumOfFolded ==
    \A a \in Aggs :
        (/\ LoopEnded(a) /\ count[a] >= 1
         /\ \A i \in 1..Len(loaded[a]) : loaded[a][i].folded => Good(loaded[a][i].val))
            => /\ aggregated[a].kind = "dict"
               /\ "n" \in DOMAIN aggregated[a].m
               /\ aggregated[a].m["n"] = PyInt(SumOrders(SelectSeq(loaded[a], FoldedEntry)))

\* C17: a run that returned an aggregate folded at least one shard, and the
\* aggregate is a Model, not the unset value.
AggregateFromSomeShard ==
    \A a \in Aggs :
        aout[a] = "Aggregated" => (count[a] >= 1 /\ aggregated[a] # NoneObj)

\* C18: the stored blob of a submission answered Accepted stays in the store,
\* unchanged, in every step that is not the save of another submission; the
\* rollback of a rejected submission does not remove it.
RollbackSparesAccepted ==
    [][\A u \in Uploads :
        (uout[u] = "Accepted" /\ uname[u] \in files /\ writer[uname[u]] = u)
            => \/ /\ uname[u] \in files'
                  /\ writer'[uname[u]] = u
                  /\ content'[uname[u]] = content[uname[u]]
               \/ \E w \in Uploads : upc[w] = "start" /\ upc'[w] = "saved"]_vars

\* C19: no run has counted as processed the blob of a submission to app.py
\* that has returned without being Accepted.
NoRejectedContribution ==
    \A a \in Aggs : \A i \in 1..Len(loaded[a]) :
        LET e == loaded[a][i] IN
        (/\ e.by # 0 /\ ~ LoadFailed(e) /\ e.folded
         /\ uvariant[e.by] = "app" /\ upc[e.by] = "done")
            => uout[e.by] = "Accepted"

\* C20: no step of an aggregate request adds, removes or rewrites a file of
\* the store.
AggregateLeavesStore ==
    [][(apc' # apc \/ pos' # pos \/ lock' # lock) => UNCHANGED <<files, content>>]_vars

\* C20 witness: a run has returned an aggregate and another an error, both
\* having read files, and every file they listed is in the store.
AggregateLeavesStoreWitness ==
    \E a \in Aggs, b \in Aggs :
        /\ apc[a] = "done" /\ aout[a] = "Aggregated" /\ count[a] >= 1
        /\ apc[b] = "done" /\ aout[b] = "Error"
        /\ \A i \in 1..Len(model_files[a]) : model_files[a][i] \in files
        /\ \A i \in 1..Len(model_files[b]) : model_files[b][i] \in files

====
